---- MODULE Spec2Model ----
(***************************************************************************)
(* Model of the build / watch engine of estrella (src/src/estrella.js):    *)
(* the cancellable build handle returned by build(), the build cycles of   *)
(* build1 / _esbuild, the watcher registry (fswatcherMap, watchFiles) and  *)
(* the type-check registry (tslintProcessCache, startTSLint). A second     *)
(* specification, FunctionsSpec, applies processConfig, projectIDForConfig, *)
(* onBuildFail, refreshFiles and the sourcemap option of build1 to inputs. *)
(*                                                                         *)
(* One action is one run-to-completion step of the event loop: a call made *)
(* by the user script (build, cancel, rebuild, addCancelCallback), or the  *)
(* code that runs when a promise the program awaits settles.               *)
(***************************************************************************)
EXTENDS Integers, Sequences, FiniteSets, TLC

\* ------------------------------------------------------------------------
\* bounds of the model

MaxBuilds == 2          \* build() calls in one process
MaxRebuilds == 1        \* rebuild() calls in one run
MaxChanges == 1         \* file-change notifications delivered by watchers
MaxCancels == 2         \* cancel() calls in one run
MaxUserCallbacks == 1   \* ctx.addCancelCallback calls made by user hooks

Handles == 1..MaxBuilds

\* ------------------------------------------------------------------------
\* configurations given to build()

ProcessCwd == "/w"      \* process.cwd()
MainDir == "/w"         \* dirname(process.mainModule.filename)
PathDelimiter == ":"    \* Path.delimiter

\* a watched project with a type-check process and an onStart hook
CfgWatchA ==
  [ cwd |-> "/w/a", outfile |-> "o", entryPoints |-> <<"m">>, watch |-> TRUE,
    tslint |-> "on", tsconfigFile |-> "", onStart |-> "async", onEnd |-> "none",
    outfileMode |-> FALSE, debug |-> TRUE, quiet |-> FALSE,
    isMainCall |-> FALSE ]

\* the same project identity as CfgWatchA (cwd given relative), no hooks
CfgWatchA2 ==
  [ cwd |-> "a", outfile |-> "o", entryPoints |-> <<"m">>, watch |-> TRUE,
    tslint |-> "off", tsconfigFile |-> "", onStart |-> "none", onEnd |-> "none",
    outfileMode |-> FALSE, debug |-> FALSE, quiet |-> FALSE,
    isMainCall |-> FALSE ]

\* one-shot build in the same directory: other identity, same type-check key
CfgOnceA ==
  [ cwd |-> "/w/a", outfile |-> "", entryPoints |-> <<"m">>, watch |-> FALSE,
    tslint |-> "on", tsconfigFile |-> "", onStart |-> "none", onEnd |-> "hook",
    outfileMode |-> FALSE, debug |-> FALSE, quiet |-> FALSE,
    isMainCall |-> FALSE ]

\* one-shot build of another project, tslint: {mode:"off"}, with an onEnd
\* hook and outfileMode
CfgOnceB ==
  [ cwd |-> "", outfile |-> "o", entryPoints |-> <<"m", "n">>, watch |-> FALSE,
    tslint |-> "objoff", tsconfigFile |-> "/w/tsconfig.json", onStart |-> "none",
    onEnd |-> "hook", outfileMode |-> TRUE, debug |-> FALSE, quiet |-> TRUE,
    isMainCall |-> FALSE ]

\* the watch, debug and quiet options as cli.parseopt leaves them: a build
\* script run without options, and the standalone program run with -w
ScriptOpts == [ watch |-> FALSE, debug |-> FALSE, quiet |-> FALSE ]
StandaloneOpts == [ watch |-> TRUE, debug |-> FALSE, quiet |-> FALSE ]

\* the configuration main() builds when estrella runs as a program (-w)
CfgMain ==
  [ cwd |-> "/w", outfile |-> "o", entryPoints |-> <<"m">>, watch |-> TRUE,
    tslint |-> "off", tsconfigFile |-> "", onStart |-> "none", onEnd |-> "none",
    outfileMode |-> FALSE, debug |-> FALSE, quiet |-> FALSE,
    isMainCall |-> TRUE ]

ApiConfigs == { CfgWatchA, CfgWatchA2, CfgOnceA, CfgOnceB }
Configs == ApiConfigs \cup { CfgMain }

\* What the user script does in one run. A script that builds one project
\* exercises its handle freely; a script that builds several projects builds
\* projects of one directory, cancels at most one of them and leaves
\* rebuild() and ctx.addCancelCallback alone.
Scripts ==
  { [ builds |-> 1, configs |-> ApiConfigs, cancels |-> MaxCancels,
      rebuilds |-> MaxRebuilds, callbacks |-> MaxUserCallbacks ],
    [ builds |-> MaxBuilds, configs |-> { CfgWatchA, CfgWatchA2, CfgOnceA },
      cancels |-> 1, rebuilds |-> 0, callbacks |-> 0 ] }

NoCfg == [ cwd |-> "", outfile |-> "", entryPoints |-> <<>>, watch |-> FALSE,
           tslint |-> "off", tsconfigFile |-> "", onStart |-> "none",
           onEnd |-> "none", outfileMode |-> FALSE, debug |-> FALSE,
           quiet |-> FALSE, isMainCall |-> FALSE ]

\* ------------------------------------------------------------------------
\* pure helpers

RelativePaths == { "a", "b" }

\* Path.resolve(p) for the paths the configurations use
PathResolve(p) ==
  IF p \in RelativePaths THEN ProcessCwd \o "/" \o p ELSE p

\* config.cwd as build1 sets it
EffectiveCwd(c) ==
  IF c.cwd # "" THEN PathResolve(c.cwd) ELSE MainDir

RECURSIVE Join(_, _)
\* Array.prototype.join
Join(parts, sep) ==
  IF Len(parts) = 0 THEN ""
  ELSE IF Len(parts) = 1 THEN parts[1]
  ELSE parts[1] \o sep \o Join(Tail(parts), sep)

\* the string projectIDForConfig hashes
ProjectKey(c) ==
  Join(<<EffectiveCwd(c), c.outfile>> \o c.entryPoints, PathDelimiter)

\* base36EncodeBuf(sha1(key)): an opaque digest, one per key
projectIDForConfig(c) == "project#" \o ProjectKey(c)

\* cacheKey of startTSLint
CacheKey(c) ==
  IF c.tsconfigFile # "" THEN c.tsconfigFile ELSE EffectiveCwd(c)

\* cancel callbacks are closures; the model names them by what they do
TslintCb(k) == [ kind |-> "tslint", key |-> k ]
FswatchCb(id) == [ kind |-> "fswatch", key |-> id ]
UserCb(n) == [ kind |-> "user", key |-> ToString(n) ]

Truthy(v) == v = "true"

\* ------------------------------------------------------------------------
\* bundler metadata and the watch set (watchFiles.refreshFiles)

\* `srcfiles.length > 100`
NodeModulesThreshold == 100

\* file names are lists of path segments
SrcMain == << "src", "m.ts" >>
SrcOther == << "src", "n.ts" >>
LibTop == << "node_modules", "x", "i.js" >>
LibNested == << "pkg", "node_modules", "y", "i.js" >>
OutFile == << "o" >>

\* n more source files
Pad(n) == [ i \in 1..n |-> << "src", "f" \o ToString(i) \o ".ts" >> ]

\* the metafile cannot be read or parsed
MetaUnreadable == [ readable |-> FALSE, inputs |-> << >>, outputs |-> { } ]

\* Object.keys(esbuildMeta.inputs) and the keys of esbuildMeta.outputs
Meta(inputs, outputs) ==
  [ readable |-> TRUE, inputs |-> inputs, outputs |-> outputs ]

MetaSmall == Meta(<< SrcMain, LibNested, OutFile >>, { OutFile })
MetaOther == Meta(<< SrcMain, SrcOther, LibTop >>, { OutFile })
MetaAtThreshold ==
  Meta(<< SrcMain, LibTop, LibNested, OutFile >> \o Pad(NodeModulesThreshold - 4),
       { OutFile })
MetaBig ==
  Meta(<< SrcMain, LibTop, LibNested, OutFile >> \o Pad(NodeModulesThreshold - 3),
       { OutFile })
MetaBigNoLib ==
  Meta(<< SrcMain, OutFile >> \o Pad(NodeModulesThreshold - 1), { OutFile })
MetaAllOutputs ==
  Meta(Pad(NodeModulesThreshold + 1),
       { Pad(NodeModulesThreshold + 1)[i] : i \in 1..(NodeModulesThreshold + 1) })

Metas == { MetaUnreadable, MetaSmall, MetaOther, MetaAtThreshold, MetaBig,
           MetaBigNoLib, MetaAllOutputs }

\* the metadata the engine meets when it refreshes a watcher
WatchMetas == { MetaUnreadable, MetaSmall, MetaBig }

\* the loop of refreshFiles evaluates fn.contains(nodeModulesPathSubstr):
\* srcfiles.length > 100 and some fn is not in outfiles. Strings have no
\* method `contains`, so the call throws a TypeError.
CallsContains(meta) ==
  /\ Len(meta.inputs) > NodeModulesThreshold
  /\ \E i \in 1..Len(meta.inputs) : meta.inputs[i] \notin meta.outputs

\* sourceFiles of refreshFiles when the loop runs to its end
SourceFiles(meta) ==
  SelectSeq(meta.inputs, LAMBDA fn : fn \notin meta.outputs)

\* mutant of refreshFiles: a metafile that cannot be read is taken to list
\* no files
refreshFilesForgetting(meta, files) ==
  IF ~meta.readable THEN [ files |-> << >>, ended |-> "logged" ]
  ELSE IF CallsContains(meta) THEN [ files |-> files, ended |-> "TypeError" ]
  ELSE [ files |-> SourceFiles(meta), ended |-> "set" ]

\* refreshFiles() of a watcher whose file list is files: the list afterwards
\* and how the call ended ("logged": log.error and return)
refreshFiles(meta, files) ==
  IF ~meta.readable THEN [ files |-> files, ended |-> "logged" ]
  ELSE IF CallsContains(meta) THEN [ files |-> files, ended |-> "TypeError" ]
  ELSE [ files |-> SourceFiles(meta), ended |-> "set" ]

\* ------------------------------------------------------------------------
\* state

VARIABLES
  script,              \* the calls the user script makes at most
  pc,                  \* where each build() call stands
  cfg,                 \* the config copy of each build() call
  canceled,            \* config[CANCELED] of build()
  cancelCallbacks,     \* the cancelCallbacks list of build()
  fired,               \* cancel callbacks invoked so far, in order
  registered,          \* callbacks passed to addCancelCallback so far, in order
  promise,             \* state of the promise p returned by build()
  resolverSet,         \* resolver.resolve / reject point at p's functions
  ctxRebuild,          \* which function ctx.rebuild is
  buildCounter,        \* ctx.buildCounter
  tslintProcess,       \* build1's tslintProcess (a cache key) or NoProc
  tslintProcessReused, \* build1's tslintProcessReused
  cycles,              \* every _esbuild call made so far
  rebuilds,            \* every rebuild() call made so far
  fswatcherMap,        \* projectID => FSWatcher
  fswatchersCreated,   \* number of FSWatcher objects constructed per projectID
  tslintProcessCache,  \* cacheKey => TSLintProcess
  tslintStarts,        \* number of tslint() calls per cacheKey
  exitCodeSet,         \* _setErrorExitCode
  cancelCalls,         \* cancel() calls made so far
  userCbs,             \* user callbacks registered so far
  changes,             \* file-change notifications delivered so far
  lastOnEnd,           \* the latest call of build1's onEnd
  cliopts,             \* the watch, debug and quiet options of cliopts
  call                 \* a function of the program applied to an input

vars == << script, pc, cfg, canceled, cancelCallbacks, fired, registered,
           promise, resolverSet,
           ctxRebuild, buildCounter, tslintProcess, tslintProcessReused,
           cycles, rebuilds, fswatcherMap, fswatchersCreated,
           tslintProcessCache, tslintStarts, exitCodeSet, cancelCalls,
           userCbs, changes, lastOnEnd, cliopts, call >>

NoProc == "none"

ProjectIDs == { projectIDForConfig(c) : c \in Configs }
CacheKeys == { CacheKey(c) : c \in Configs }

\* no onEnd call yet
NoOnEnd == [ cycle |-> 0, success |-> TRUE, chmod |-> TRUE,
             returned |-> "undefined" ]

\* no function applied
NoCall == [ fn |-> "none" ]

\* the state of the module once it is loaded
EngineInit ==
  /\ lastOnEnd = NoOnEnd
  /\ cliopts = ScriptOpts
  /\ script \in Scripts
  /\ pc = [h \in Handles |-> "none"]
  /\ cfg = [h \in Handles |-> NoCfg]
  /\ canceled = [h \in Handles |-> FALSE]
  /\ cancelCallbacks = [h \in Handles |-> <<>>]
  /\ fired = [h \in Handles |-> <<>>]
  /\ registered = [h \in Handles |-> <<>>]
  /\ promise = [h \in Handles |-> "pending"]
  /\ resolverSet = [h \in Handles |-> FALSE]
  /\ ctxRebuild = [h \in Handles |-> "stub"]
  /\ buildCounter = [h \in Handles |-> 0]
  /\ tslintProcess = [h \in Handles |-> NoProc]
  /\ tslintProcessReused = [h \in Handles |-> FALSE]
  /\ cycles = <<>>
  /\ rebuilds = <<>>
  /\ fswatcherMap = << >>
  /\ fswatchersCreated = [id \in ProjectIDs |-> 0]
  /\ tslintProcessCache = << >>
  /\ tslintStarts = [k \in CacheKeys |-> 0]
  /\ exitCodeSet = FALSE
  /\ cancelCalls = 0
  /\ userCbs = 0
  /\ changes = 0

Init ==
  /\ EngineInit
  /\ call = NoCall


\* ------------------------------------------------------------------------
\* the build handle: build(), addCancelCallback, cancel

\* build() numbers its handles in call order
NextHandle(h) ==
  /\ pc[h] = "none"
  /\ \A g \in Handles : g < h => pc[g] # "none"

\* build(config): copies the config, defines CANCELED = false on the copy and
\* defers the start to cli_ready.then
Build(c) ==
  \E h \in Handles :
    /\ NextHandle(h)
    /\ h <= script.builds
    /\ c \in script.configs
    /\ \A g \in Handles : ~cfg[g].isMainCall
    /\ pc' = [pc EXCEPT ![h] = "created"]
    /\ cfg' = [cfg EXCEPT ![h] = c]
    /\ UNCHANGED << call, cliopts, lastOnEnd, script, canceled, cancelCallbacks, fired, registered, promise,
                    resolverSet, ctxRebuild, buildCounter, tslintProcess,
                    tslintProcessReused, cycles, rebuilds, fswatcherMap,
                    fswatchersCreated, tslintProcessCache, tslintStarts,
                    exitCodeSet, cancelCalls, userCbs, changes >>

\* main(): the only build of a process that runs estrella as a program
Main ==
  /\ \A h \in Handles : pc[h] = "none"
  /\ pc' = [pc EXCEPT ![1] = "created"]
  /\ cfg' = [cfg EXCEPT ![1] = CfgMain]
  /\ cliopts' = StandaloneOpts
  /\ UNCHANGED << call, lastOnEnd, script, canceled, cancelCallbacks, fired, registered, promise,
                  resolverSet, ctxRebuild, buildCounter, tslintProcess,
                  tslintProcessReused, cycles, rebuilds, fswatcherMap,
                  fswatchersCreated, tslintProcessCache, tslintStarts,
                  exitCodeSet, cancelCalls, userCbs, changes >>

\* the value of config[CANCELED] that build1 and _esbuild read. build1 works
\* on its own copy {...config} unless IS_MAIN_CALL is set; CANCELED is defined
\* non-enumerable, so the copy does not have it.
CanceledInBuild1(h) ==
  IF cfg[h].isMainCall THEN canceled[h] ELSE FALSE

\* p settles once: later resolve / reject calls change nothing
Settle(h, v) ==
  IF promise[h] = "pending" THEN [promise EXCEPT ![h] = v] ELSE promise

\* the watchers after the callbacks cbs ran: fswatcher.promise.cancel()
CloseWatchers(map, cbs) ==
  [ id \in DOMAIN map |->
      IF \E i \in 1..Len(cbs) : cbs[i] = FswatchCb(id)
      THEN [ map[id] EXCEPT !.closed = TRUE ]
      ELSE map[id] ]

\* TSLintProcess.cancel() of a process
CancelProcess(p) ==
  IF p.state = "running" THEN [ p EXCEPT !.state = "canceled" ] ELSE p

\* the type-check processes after the callbacks cbs ran: tslintProcess.cancel()
CancelProcesses(cache, cbs) ==
  [ k \in DOMAIN cache |->
      IF \E i \in 1..Len(cbs) : cbs[i] = TslintCb(k)
      THEN CancelProcess(cache[k])
      ELSE cache[k] ]

\* mutant of CallbacksAfterCancel: `cancelCallbacks.length = 0` left out
CallbacksKeptAfterCancel(cbs) == cbs

\* cancelCallbacks after cancel() ran them
CallbacksAfterCancel(cbs) == << >>

\* cancel(reason) of a handle that is already canceled
CancelAgain(h) ==
  UNCHANGED << canceled, cancelCallbacks, fired, promise, fswatcherMap,
               tslintProcessCache >>

\* the first cancel(reason): set the flag, run and clear the callbacks,
\* settle p through resolver
CancelFirst(h, reason) ==
  /\ canceled' = [canceled EXCEPT ![h] = TRUE]
  /\ fired' = [fired EXCEPT ![h] = @ \o cancelCallbacks[h]]
  /\ fswatcherMap' = CloseWatchers(fswatcherMap, cancelCallbacks[h])
  /\ tslintProcessCache' = CancelProcesses(tslintProcessCache, cancelCallbacks[h])
  /\ cancelCallbacks' =
       [cancelCallbacks EXCEPT ![h] = CallbacksAfterCancel(cancelCallbacks[h])]
  /\ promise' =
       IF resolverSet[h]
       THEN Settle(h, IF reason THEN "rejected_reason" ELSE "undefined")
       ELSE promise

\* mutant of Cancel: no `if (!config[CANCELED])` guard, and the callbacks
\* stay in the list
CancelUnguarded(h, reason) ==
  /\ pc[h] # "none"
  /\ ~cfg[h].isMainCall
  /\ cancelCalls < script.cancels
  /\ cancelCalls' = cancelCalls + 1
  /\ canceled' = [canceled EXCEPT ![h] = TRUE]
  /\ fired' = [fired EXCEPT ![h] = @ \o cancelCallbacks[h]]
  /\ fswatcherMap' = CloseWatchers(fswatcherMap, cancelCallbacks[h])
  /\ tslintProcessCache' = CancelProcesses(tslintProcessCache, cancelCallbacks[h])
  /\ promise' =
       IF resolverSet[h]
       THEN Settle(h, IF reason THEN "rejected_reason" ELSE "undefined")
       ELSE promise
  /\ UNCHANGED << call, cliopts, lastOnEnd, script, pc, cfg, cancelCallbacks, registered, resolverSet,
                  ctxRebuild, buildCounter, tslintProcess, tslintProcessReused,
                  cycles, rebuilds, fswatchersCreated, tslintStarts,
                  exitCodeSet, userCbs, changes >>

\* p.cancel(reason)
Cancel(h, reason) ==
  /\ pc[h] # "none"
  /\ ~cfg[h].isMainCall
  /\ cancelCalls < script.cancels
  /\ cancelCalls' = cancelCalls + 1
  /\ IF ~canceled[h] THEN CancelFirst(h, reason) ELSE CancelAgain(h)
  /\ UNCHANGED << call, cliopts, lastOnEnd, script, pc, cfg, registered, resolverSet, ctxRebuild,
                  buildCounter, tslintProcess, tslintProcessReused, cycles,
                  rebuilds, fswatchersCreated, tslintStarts, exitCodeSet,
                  userCbs, changes >>

\* a hook of this handle has been called, so user code holds ctx
UserHoldsCtx(h) ==
  \E i \in 1..Len(cycles) :
    /\ cycles[i].h = h
    /\ \/ cycles[i].onStartCalls > 0
       \/ cycles[i].onEndCalls > 0 /\ cfg[h].onEnd = "hook"

\* addCancelCallback(f): the list afterwards
CallbacksAfterAdd(h, f) ==
  IF canceled[h] THEN cancelCallbacks[h] ELSE Append(cancelCallbacks[h], f)

\* addCancelCallback(f): the callbacks invoked so far, afterwards
FiredAfterAdd(h, f) ==
  IF canceled[h] THEN Append(fired[h], f) ELSE fired[h]

\* ctx.addCancelCallback(f) called by user code
UserAddCancelCallback(h) ==
  /\ UserHoldsCtx(h)
  /\ userCbs < script.callbacks
  /\ userCbs' = userCbs + 1
  /\ cancelCallbacks' =
       [cancelCallbacks EXCEPT ![h] = CallbacksAfterAdd(h, UserCb(userCbs + 1))]
  /\ fired' = [fired EXCEPT ![h] = FiredAfterAdd(h, UserCb(userCbs + 1))]
  /\ registered' = [registered EXCEPT ![h] = Append(@, UserCb(userCbs + 1))]
  /\ UNCHANGED << call, cliopts, lastOnEnd, script, pc, cfg, canceled, promise, resolverSet, ctxRebuild,
                  buildCounter, tslintProcess, tslintProcessReused, cycles,
                  rebuilds, fswatcherMap, fswatchersCreated,
                  tslintProcessCache, tslintStarts, exitCodeSet, cancelCalls,
                  changes >>

\* ------------------------------------------------------------------------
\* build cycles: _esbuild

\* the record of a call _esbuild(changedFiles) made for handle h, up to its
\* first suspension: the onStart hook is called and awaited, else the
\* canceled check and the bundler invocation follow at once
StartCycle(h, origin, wid) ==
  [ h |-> h, origin |-> origin, wid |-> wid,
    phase |-> IF cfg[h].onStart = "async" THEN "onStart"
              ELSE IF CanceledInBuild1(h) THEN "noop"
              ELSE "esbuild",
    result |-> "pending", onStartRejected |-> FALSE,
    onStartCalls |-> IF cfg[h].onStart = "async" THEN 1 ELSE 0,
    esbuildCalls |->
      IF cfg[h].onStart # "async" /\ ~CanceledInBuild1(h) THEN 1 ELSE 0,
    onEndCalls |-> 0 ]

\* return values of a user onEnd hook
OnEndReturns == { "undefined", "true", "false", "throw" }

\* mutant of OnEnd: a bundler failure is thrown instead of being handed to
\* the hook and returned as the outcome
OnEndThrowsFailure(c, defaultReturn, r) ==
  IF defaultReturn = "false" \/ r = "throw" THEN "rejected"
  ELSE IF c.onEnd = "none" \/ r = "undefined" THEN defaultReturn
  ELSE r

\* onEnd(props, defaultReturn): the outcome of the cycle
OnEnd(c, defaultReturn, r) ==
  IF c.onEnd = "none" THEN defaultReturn
  ELSE IF r = "throw" THEN "rejected"
  ELSE IF r = "undefined" THEN defaultReturn
  ELSE r

\* mutant of StartTSLintResult: tslintProcessCache is not consulted
StartTSLintUncached(c) ==
  IF c.tslint = "objoff" THEN << NoProc, FALSE >>
  ELSE << CacheKey(c), FALSE >>

\* startTSLint(tslintOptions, cliopts, config): [tslintProcess, reused],
\* the process being named by its cache key
StartTSLintResult(c) ==
  IF c.tslint = "objoff" THEN << NoProc, FALSE >>
  ELSE IF CacheKey(c) \in DOMAIN tslintProcessCache
       THEN << CacheKey(c), TRUE >>
       ELSE << CacheKey(c), FALSE >>

\* startTSLint: tslint(options) is called and the process is cached
StartsProcess(c) ==
  /\ StartTSLintResult(c)[1] # NoProc
  /\ ~StartTSLintResult(c)[2]

\* build1 smashes config options and CLI options together: cliopts after
\* `opts.debug = !!(opts.debug || config.debug)` and the like, opts being
\* the cliopts object of the module
SmashedOpts(c, opts) ==
  [ watch |-> opts.watch \/ c.watch,
    debug |-> opts.debug \/ c.debug,
    quiet |-> opts.quiet \/ c.quiet ]

\* and the config of the build after it (config.watch is a boolean here)
SmashedConfig(c, opts) ==
  [ c EXCEPT !.watch = SmashedOpts(c, opts).watch,
             !.debug = SmashedOpts(c, opts).debug,
             !.quiet = SmashedOpts(c, opts).quiet ]

\* mutant of CancelledImmediately: the deferred start does not look at the flag
NeverCancelledImmediately(h) == FALSE

\* the check `if (config[CANCELED])` of the deferred start
CancelledImmediately(h) == canceled[h]

\* the deferred start of build(): cli_ready.then(() => new Promise(...)),
\* with build1 up to its first await (await buildPromise)
StartBuild(h) ==
  /\ pc[h] = "created"
  /\ IF CancelledImmediately(h)
     THEN \* "build cancelled immediately": the executor returns
          /\ pc' = [pc EXCEPT ![h] = "skipped"]
          /\ UNCHANGED << resolverSet, ctxRebuild, cycles, tslintProcess,
                          tslintProcessReused, tslintProcessCache,
                          tslintStarts, cancelCallbacks, registered, cfg,
                          cliopts >>
     ELSE /\ pc' = [pc EXCEPT ![h] = "initial"]
          /\ cliopts' = SmashedOpts(cfg[h], cliopts)
          /\ cfg' = [cfg EXCEPT ![h] = SmashedConfig(cfg[h], cliopts)]
          /\ resolverSet' = [resolverSet EXCEPT ![h] = TRUE]
          /\ ctxRebuild' = [ctxRebuild EXCEPT ![h] = "build1"]
          /\ cycles' = Append(cycles, StartCycle(h, "initial", ""))
          /\ IF cfg[h].tslint = "off"
             THEN UNCHANGED << tslintProcess, tslintProcessReused,
                               tslintProcessCache, tslintStarts,
                               cancelCallbacks, registered >>
             ELSE LET r == StartTSLintResult(cfg[h])
                      k == CacheKey(cfg[h])
                  IN /\ tslintProcess' = [tslintProcess EXCEPT ![h] = r[1]]
                     /\ tslintProcessReused' =
                          [tslintProcessReused EXCEPT ![h] = r[2]]
                     /\ IF StartsProcess(cfg[h])
                        THEN /\ tslintProcessCache' =
                                  (k :> [state |-> "running"]) @@ tslintProcessCache
                             /\ tslintStarts' =
                                  [tslintStarts EXCEPT ![k] = @ + 1]
                        ELSE UNCHANGED << tslintProcessCache, tslintStarts >>
                     /\ IF r[1] # NoProc /\ ~r[2]
                        THEN /\ cancelCallbacks' =
                                  [cancelCallbacks EXCEPT
                                     ![h] = CallbacksAfterAdd(h, TslintCb(k))]
                             /\ registered' =
                                  [registered EXCEPT ![h] = Append(@, TslintCb(k))]
                        ELSE UNCHANGED << cancelCallbacks, registered >>
  /\ UNCHANGED << call, lastOnEnd, script, canceled, fired, promise, buildCounter, rebuilds,
                  fswatcherMap, fswatchersCreated, exitCodeSet, cancelCalls,
                  userCbs, changes >>


\* ------------------------------------------------------------------------
\* build1 after `await buildPromise`, watchFiles

\* mutant of FswatcherFound: the registry is not consulted
FswatcherNeverFound(id) == FALSE

\* fswatcherMap.get(projectID) finds a watcher
FswatcherFound(id) == id \in DOMAIN fswatcherMap

\* watchFiles(config, metafile, ctx, callback) up to `await refreshFiles()`:
\* look the watcher up or create it, and register its cancellation when created
WatchFilesEnter(h, ec) ==
  LET id == projectIDForConfig(cfg[h]) IN
  /\ pc' = [pc EXCEPT ![h] = "refresh"]
  /\ IF FswatcherFound(id)
     THEN UNCHANGED << fswatcherMap, fswatchersCreated, cancelCallbacks, fired,
                       registered >>
     ELSE /\ fswatcherMap' =
               (id :> [ owner |-> h, state |-> "idle", files |-> << >>,
                        lastRefresh |-> "none", closed |-> canceled[h] ])
               @@ fswatcherMap
          /\ fswatchersCreated' = [fswatchersCreated EXCEPT ![id] = @ + 1]
          /\ cancelCallbacks' =
               [cancelCallbacks EXCEPT ![h] = CallbacksAfterAdd(h, FswatchCb(id))]
          /\ fired' = [fired EXCEPT ![h] = FiredAfterAdd(h, FswatchCb(id))]
          /\ registered' = [registered EXCEPT ![h] = Append(@, FswatchCb(id))]
  /\ exitCodeSet' = ec
  /\ UNCHANGED << promise, tslintProcessCache >>

\* build1 returns or throws: build1(config, ctx).then(resolve).catch(reject)
Build1Returns(h, v) ==
  /\ pc' = [pc EXCEPT ![h] = "done"]
  /\ promise' = Settle(h, v)

\* build1 from `ok = await buildPromise` on, res being what buildPromise
\* settled to and ec the error exit code as the cycle left it
AfterInitial(h, res, ec) ==
  IF res = "rejected" THEN
    /\ Build1Returns(h, "rejected_error")
    /\ exitCodeSet' = ec
    /\ UNCHANGED << fswatcherMap, fswatchersCreated, cancelCallbacks, fired,
                    registered, tslintProcessCache >>
  ELSE IF CanceledInBuild1(h) THEN
    /\ Build1Returns(h, "false")
    /\ exitCodeSet' = ec
    /\ UNCHANGED << fswatcherMap, fswatchersCreated, cancelCallbacks, fired,
                    registered, tslintProcessCache >>
  ELSE IF cfg[h].watch THEN
    WatchFilesEnter(h, ec)
  ELSE IF tslintProcess[h] # NoProc /\ Truthy(res) THEN
    \* ok = await tslintProcess.catch(() => false)
    /\ pc' = [pc EXCEPT ![h] = "tslint"]
    /\ exitCodeSet' = ec
    /\ UNCHANGED << promise, fswatcherMap, fswatchersCreated, cancelCallbacks,
                    fired, registered, tslintProcessCache >>
  ELSE
    /\ Build1Returns(h, res)
    /\ tslintProcessCache' =
         IF tslintProcess[h] # NoProc
         THEN [tslintProcessCache EXCEPT
                 ![tslintProcess[h]] = CancelProcess(@)]
         ELSE tslintProcessCache
    /\ exitCodeSet' = (ec \/ ~Truthy(res))
    /\ UNCHANGED << fswatcherMap, fswatchersCreated, cancelCallbacks, fired,
                    registered >>

\* fswatcher.onChange = changedFiles => callback(changedFiles).then(refreshFiles)
\* once the cycle has settled. What FSWatcher does when onChange rejects is
\* not in this file: the watcher is taken to go on.
AfterWatchCycle(id, res, ec) ==
  /\ fswatcherMap' =
       [fswatcherMap EXCEPT
          ![id].state = IF res = "rejected" THEN "idle" ELSE "refresh"]
  /\ exitCodeSet' = ec
  /\ UNCHANGED << pc, promise, fswatchersCreated, cancelCallbacks, fired,
                  registered, tslintProcessCache, rebuilds >>

\* mutant of AfterRebuildCycle: rebuild() resolves true whatever the cycle did,
\* as the stub does
AfterRebuildCycleTrue(i, res, ec) ==
  /\ rebuilds' =
       [ j \in 1..Len(rebuilds) |->
           IF rebuilds[j].cycle = i
           THEN [ rebuilds[j] EXCEPT !.result = "true" ]
           ELSE rebuilds[j] ]
  /\ exitCodeSet' = ec
  /\ UNCHANGED << pc, promise, fswatcherMap, fswatchersCreated,
                  cancelCallbacks, fired, registered, tslintProcessCache >>

\* ctx.rebuild: `_esbuild([]).then(ok => ... return ok)`, the promise that
\* rebuild() returned settles as the cycle did
AfterRebuildCycle(i, res, ec) ==
  /\ rebuilds' =
       [ j \in 1..Len(rebuilds) |->
           IF rebuilds[j].cycle = i
           THEN [ rebuilds[j] EXCEPT !.result = res ]
           ELSE rebuilds[j] ]
  /\ exitCodeSet' = ec
  /\ UNCHANGED << pc, promise, fswatcherMap, fswatchersCreated,
                  cancelCallbacks, fired, registered, tslintProcessCache >>

\* what runs when cycle i settles to res
Continue(i, res, ec) ==
  CASE cycles[i].origin = "initial" ->
         AfterInitial(cycles[i].h, res, ec) /\ UNCHANGED rebuilds
    [] cycles[i].origin = "watch" -> AfterWatchCycle(cycles[i].wid, res, ec)
    [] OTHER -> AfterRebuildCycle(i, res, ec)

CycleFrame ==
  UNCHANGED << call, cliopts, script, cfg, canceled, resolverSet, ctxRebuild,
               buildCounter,
               tslintProcess, tslintProcessReused, tslintStarts,
               cancelCalls, userCbs, changes >>

\* mutant of OnStartThrows: the catch block of _esbuild does not rethrow
OnStartErrorSwallowed(resolved) == FALSE

\* `await r` throws and the catch block of _esbuild rethrows the error,
\* resolved telling whether the promise of the onStart hook resolved
OnStartThrows(resolved) == ~resolved

\* _esbuild goes on after its first suspension: the promise returned by the
\* onStart hook settled, or (phase "noop") the call found config[CANCELED]
\* set and its caller resumes. A hook that throws instead of returning a
\* promise takes the same catch block.
OnStartSettled(i, resolved) ==
  /\ cycles[i].phase \in { "onStart", "noop" }
  /\ cycles[i].phase = "noop" => resolved
  /\ IF OnStartThrows(resolved) THEN
       /\ cycles' = [cycles EXCEPT ![i].phase = "settled",
                                   ![i].result = "rejected",
                                   ![i].onStartRejected = TRUE]
       /\ Continue(i, "rejected", exitCodeSet)
     ELSE IF CanceledInBuild1(cycles[i].h) THEN
       /\ cycles' = [cycles EXCEPT ![i].phase = "settled",
                                   ![i].result = "undefined",
                                   ![i].onStartRejected = ~resolved]
       /\ Continue(i, "undefined", exitCodeSet)
     ELSE
       /\ cycles' = [cycles EXCEPT ![i].phase = "esbuild",
                                   ![i].esbuildCalls = @ + 1,
                                   ![i].onStartRejected = ~resolved]
       /\ UNCHANGED << pc, promise, fswatcherMap, fswatchersCreated,
                       cancelCallbacks, fired, registered, tslintProcessCache,
                       exitCodeSet, rebuilds >>
  /\ UNCHANGED lastOnEnd
  /\ CycleFrame

\* the onEnd wrapper of build1 calls chmod(config.outfile, config.outfileMode)
CallsChmod(c) == c.outfileMode /\ c.outfile # ""

\* esbuild.build settles: onBuildSuccess or onBuildFail, then onEnd. chmod
\* tells whether the chmod of the onEnd wrapper went through; r is what the
\* user's onEnd hook does.
EsbuildSettled(i, success, chmod, r) ==
  /\ cycles[i].phase = "esbuild"
  /\ cfg[cycles[i].h].onEnd = "none" => r = "undefined"
  /\ ~CallsChmod(cfg[cycles[i].h]) => chmod
  /\ LET res == OnEnd(cfg[cycles[i].h], IF success THEN "true" ELSE "false", r)
     IN /\ cycles' = [cycles EXCEPT ![i].phase = "settled",
                                    ![i].result = res,
                                    ![i].onEndCalls = @ + 1]
        /\ Continue(i, res, exitCodeSet \/ ~chmod)
  /\ lastOnEnd' = [ cycle |-> i, success |-> success, chmod |-> chmod,
                    returned |-> r ]
  /\ CycleFrame


\* `await refreshFiles()` of watchFiles settles for the handle that awaits it,
\* the metafile holding meta: watchFiles goes on to `return fswatcher.promise`
\* or throws what refreshFiles threw
RefreshDone(h, meta) ==
  LET id == projectIDForConfig(cfg[h])
      r == refreshFiles(meta, fswatcherMap[id].files)
  IN
  /\ pc[h] = "refresh"
  /\ fswatcherMap' =
       [fswatcherMap EXCEPT ![id].files = r.files, ![id].lastRefresh = r.ended]
  /\ IF r.ended = "TypeError"
     THEN Build1Returns(h, "rejected_error")
     ELSE /\ pc' = [pc EXCEPT ![h] = "watching"]
          /\ UNCHANGED promise
  /\ UNCHANGED << call, cliopts, lastOnEnd, script, cfg, canceled, cancelCallbacks, fired, registered,
                  resolverSet,
                  ctxRebuild, buildCounter, tslintProcess,
                  tslintProcessReused, cycles, rebuilds, fswatchersCreated,
                  tslintProcessCache, tslintStarts, exitCodeSet, cancelCalls,
                  userCbs, changes >>

\* fswatcher.promise has been canceled: watchFiles returns, build1 returns true
WatchEnded(h) ==
  /\ pc[h] = "watching"
  /\ fswatcherMap[projectIDForConfig(cfg[h])].closed
  /\ Build1Returns(h, "true")
  /\ UNCHANGED << call, cliopts, lastOnEnd, script, cfg, canceled, cancelCallbacks, fired, registered,
                  resolverSet,
                  ctxRebuild, buildCounter, tslintProcess,
                  tslintProcessReused, cycles, rebuilds, fswatcherMap,
                  fswatchersCreated, tslintProcessCache, tslintStarts,
                  exitCodeSet, cancelCalls, userCbs, changes >>

\* the watcher reports changed files: fswatcher.onChange(changedFiles), which
\* is the callback of the build that created the watcher. The watcher awaits
\* the promise onChange returns before it reports again.
FileChange(id) ==
  /\ id \in DOMAIN fswatcherMap
  /\ fswatcherMap[id].state = "idle"
  /\ fswatcherMap[id].files # << >>
  /\ ~fswatcherMap[id].closed
  /\ changes < MaxChanges
  /\ changes' = changes + 1
  /\ fswatcherMap' = [fswatcherMap EXCEPT ![id].state = "busy"]
  /\ cycles' = Append(cycles, StartCycle(fswatcherMap[id].owner, "watch", id))
  /\ UNCHANGED << call, cliopts, lastOnEnd, script, pc, cfg, canceled, cancelCallbacks, fired, registered,
                  promise,
                  resolverSet, ctxRebuild, buildCounter, tslintProcess,
                  tslintProcessReused, rebuilds, fswatchersCreated,
                  tslintProcessCache, tslintStarts, exitCodeSet, cancelCalls,
                  userCbs >>

\* refreshFiles() chained to a watcher-triggered cycle settles, the metafile
\* holding meta. What FSWatcher does when the promise of onChange rejects is
\* not in this file: the watcher is taken to go on.
WatcherRefreshDone(id, meta) ==
  /\ id \in DOMAIN fswatcherMap
  /\ fswatcherMap[id].state = "refresh"
  /\ LET r == refreshFiles(meta, fswatcherMap[id].files)
     IN fswatcherMap' =
          [fswatcherMap EXCEPT ![id].state = "idle", ![id].files = r.files,
                               ![id].lastRefresh = r.ended]
  /\ UNCHANGED << call, cliopts, lastOnEnd, script, pc, cfg, canceled, cancelCallbacks, fired, registered,
                  promise,
                  resolverSet, ctxRebuild, buildCounter, tslintProcess,
                  tslintProcessReused, cycles, rebuilds, fswatchersCreated,
                  tslintProcessCache, tslintStarts, exitCodeSet, cancelCalls,
                  userCbs, changes >>

\* a type-check process ends by itself: it resolves true or false, or rejects
TslintSettled(k, r) ==
  /\ k \in DOMAIN tslintProcessCache
  /\ tslintProcessCache[k].state = "running"
  /\ tslintProcessCache' = [tslintProcessCache EXCEPT ![k].state = r]
  /\ UNCHANGED << call, cliopts, lastOnEnd, script, pc, cfg, canceled, cancelCallbacks, fired, registered,
                  promise,
                  resolverSet, ctxRebuild, buildCounter, tslintProcess,
                  tslintProcessReused, cycles, rebuilds, fswatcherMap,
                  fswatchersCreated, tslintStarts, exitCodeSet, cancelCalls,
                  userCbs, changes >>

\* mutant of TslintAwaitValue: the result of the type-check is not looked at
TslintAwaitAlwaysTrue(p) == "true"

\* what `await tslintProcess.catch(() => false)` yields for a settled process
TslintAwaitValue(p) ==
  IF p.state = "true" THEN "true" ELSE "false"

\* build1 after `ok = await tslintProcess.catch(() => false)`
TslintAwaited(h) ==
  /\ pc[h] = "tslint"
  /\ tslintProcessCache[tslintProcess[h]].state # "running"
  /\ LET ok == TslintAwaitValue(tslintProcessCache[tslintProcess[h]])
     IN /\ Build1Returns(h, ok)
        /\ exitCodeSet' =
             (exitCodeSet \/ (~CanceledInBuild1(h) /\ ~Truthy(ok)))
  /\ UNCHANGED << call, cliopts, lastOnEnd, script, cfg, canceled, cancelCallbacks, fired, registered,
                  resolverSet,
                  ctxRebuild, buildCounter, tslintProcess,
                  tslintProcessReused, cycles, rebuilds, fswatcherMap,
                  fswatchersCreated, tslintProcessCache, tslintStarts,
                  cancelCalls, userCbs, changes >>

\* ------------------------------------------------------------------------
\* rebuild

\* the initial _esbuild([]) call of build1 has settled
InitialCompleted(h) ==
  \E i \in 1..Len(cycles) :
    /\ cycles[i].h = h
    /\ cycles[i].origin = "initial"
    /\ cycles[i].phase = "settled"

\* p.rebuild() = ctx.rebuild(): the stub of build() warns and resolves true,
\* the function build1 installs calls _esbuild([])
Rebuild(h) ==
  /\ pc[h] # "none"
  /\ ~cfg[h].isMainCall
  /\ Len(rebuilds) < script.rebuilds
  /\ IF ctxRebuild[h] = "build1"
     THEN /\ cycles' = Append(cycles, StartCycle(h, "rebuild", ""))
          /\ rebuilds' = Append(rebuilds,
               [ h |-> h, kind |-> "cycle", cycle |-> Len(cycles) + 1,
                 result |-> "pending", initialDone |-> InitialCompleted(h),
                 wasCanceled |-> canceled[h] ])
     ELSE /\ UNCHANGED cycles
          /\ rebuilds' = Append(rebuilds,
               [ h |-> h, kind |-> "stub", cycle |-> 0,
                 result |-> "true", initialDone |-> InitialCompleted(h),
                 wasCanceled |-> canceled[h] ])
  /\ UNCHANGED << call, cliopts, lastOnEnd, script, pc, cfg, canceled, cancelCallbacks, fired, registered,
                  promise,
                  resolverSet, ctxRebuild, buildCounter, tslintProcess,
                  tslintProcessReused, fswatcherMap, fswatchersCreated,
                  tslintProcessCache, tslintStarts, exitCodeSet, cancelCalls,
                  userCbs, changes >>

\* ------------------------------------------------------------------------
\* specification

Next ==
  \/ Main
  \/ \E c \in ApiConfigs : Build(c)
  \/ \E h \in Handles : StartBuild(h)
  \/ \E h \in Handles, reason \in BOOLEAN : Cancel(h, reason)
  \/ \E h \in Handles : UserAddCancelCallback(h)
  \/ \E h \in Handles : Rebuild(h)
  \/ \E i \in 1..Len(cycles), resolved \in BOOLEAN : OnStartSettled(i, resolved)
  \/ \E i \in 1..Len(cycles), success \in BOOLEAN, chmod \in BOOLEAN,
        r \in OnEndReturns :
       EsbuildSettled(i, success, chmod, r)
  \/ \E h \in Handles, meta \in WatchMetas : RefreshDone(h, meta)
  \/ \E h \in Handles : WatchEnded(h)
  \/ \E id \in ProjectIDs : FileChange(id)
  \/ \E id \in ProjectIDs, meta \in WatchMetas : WatcherRefreshDone(id, meta)
  \/ \E k \in CacheKeys, r \in { "true", "false", "rejected" } : TslintSettled(k, r)
  \/ \E h \in Handles : TslintAwaited(h)

Spec == Init /\ [][Next]_vars


\* ------------------------------------------------------------------------
\* functions of the program applied to inputs: onBuildFail, processConfig,
\* projectIDForConfig, refreshFiles, the sourcemap option of build1

\* JavaScript values: undefined, a string, an array
Absent == [ kind |-> "absent", s |-> "", l |-> << >> ]
Str(s) == [ kind |-> "string", s |-> s, l |-> << >> ]
Arr(l) == [ kind |-> "array", s |-> "", l |-> l ]

\* !v
Falsy(v) == v.kind = "absent" \/ (v.kind = "string" /\ v.s = "")

\* v.length == 0
IsEmpty(v) == IF v.kind = "array" THEN Len(v.l) = 0 ELSE v.s = ""

\* String(err) of a rejection value: an Error instance (Error.prototype
\* .toString), a plain object, or a string
ErrString(err) ==
  IF err.kind = "string" THEN err.message
  ELSE IF err.kind = "object" THEN "[object Object]"
  ELSE IF err.name = "" THEN err.message
  ELSE IF err.message = "" THEN err.name
  ELSE err.name \o ": " \o err.message

\* mutant of onBuildFail: no error entry is synthesized
onBuildFailNoSynthesis(err) ==
  [ warnings |-> IF err.warnings.kind = "array" THEN err.warnings.l ELSE << >>,
    errors |-> IF err.errors.kind = "array" THEN err.errors.l ELSE << >> ]

\* onBuildFail(timeStart, err): the props it passes to onEnd. _esbuild hands
\* it to esbuildPromise.then, so options is undefined and no stack is shown.
onBuildFail(err) ==
  LET warnings == IF err.warnings.kind = "array" THEN err.warnings.l ELSE << >>
      errors == IF err.errors.kind = "array" THEN err.errors.l ELSE << >>
  IN [ warnings |-> warnings,
       errors |-> IF Len(errors) = 0
                  THEN << [ text |-> ErrString(err), location |-> "null" ] >>
                  ELSE errors ]

\* what esbuild.build rejects with
Errs ==
  { e \in [ kind : { "Error", "object", "string" },
            name : { "", "Error", "TypeError" },
            message : { "", "boom" },
            errors : { Absent, Arr(<< >>),
                       Arr(<< [ text |-> "e1", location |-> "m:1" ] >>) },
            warnings : { Absent, Arr(<< [ text |-> "w1", location |-> "m:2" ] >>) } ] :
      /\ e.kind = "Error" <=> e.name # ""
      /\ e.kind = "string" => e.errors = Absent /\ e.warnings = Absent }

\* guessEntryPoints(config), tsconfig being what getTSConfigForConfig
\* returns: nothing, an object with files, or one with include (matches are
\* the files the include patterns match and the exclude patterns do not)
guessEntryPoints(tsconfig) ==
  IF tsconfig.kind = "files" THEN tsconfig.files
  ELSE IF tsconfig.kind = "include" /\ Len(tsconfig.matches) > 0
       THEN << tsconfig.matches[1] >>
  ELSE << >>

\* processConfig(config) up to the entry points: how it ends and the
\* config.entryPoints it leaves
processConfig(config) ==
  LET ep == IF Falsy(config.entryPoints) THEN Arr(<< >>) ELSE config.entryPoints
  IN
  IF Falsy(config.entry) THEN
    IF ~IsEmpty(ep) THEN [ ended |-> "ok", entryPoints |-> ep ]
    ELSE IF Len(guessEntryPoints(config.tsconfig)) = 0
         THEN [ ended |-> "Error", entryPoints |-> Arr(<< >>) ]
         ELSE [ ended |-> "ok",
                entryPoints |-> Arr(guessEntryPoints(config.tsconfig)) ]
  ELSE IF config.entry.kind = "array" THEN
    \* config.entryPoints.concat(config.entry): Array or String concat
    IF ep.kind = "string"
    THEN [ ended |-> "ok",
           entryPoints |-> Str(ep.s \o Join(config.entry.l, ",")) ]
    ELSE IF Len(ep.l \o config.entry.l) > 0
         THEN [ ended |-> "ok", entryPoints |-> Arr(ep.l \o config.entry.l) ]
    ELSE IF Len(guessEntryPoints(config.tsconfig)) = 0
         THEN [ ended |-> "Error", entryPoints |-> Arr(<< >>) ]
         ELSE [ ended |-> "ok",
                entryPoints |-> Arr(guessEntryPoints(config.tsconfig)) ]
  ELSE
    \* config.entryPoints.push(config.entry): a string has no push
    IF ep.kind = "string"
    THEN [ ended |-> "TypeError", entryPoints |-> ep ]
    ELSE [ ended |-> "ok", entryPoints |-> Arr(Append(ep.l, config.entry.s)) ]

\* the entry points given to build()
EntryConfigs ==
  [ entryPoints : { Absent, Str("m"), Arr(<< >>), Arr(<< "m" >>),
                    Arr(<< "m", "n" >>) },
    entry : { Absent, Str("e"), Arr(<< "e" >>), Arr(<< "e", "f" >>) },
    tsconfig : { [ kind |-> "none", files |-> << >>, matches |-> << >> ],
                 [ kind |-> "files", files |-> << >>, matches |-> << >> ],
                 [ kind |-> "files", files |-> << "t" >>, matches |-> << >> ],
                 [ kind |-> "include", files |-> << >>, matches |-> << >> ],
                 [ kind |-> "include", files |-> << >>,
                   matches |-> << "t", "u" >> ] } ]

\* JavaScript values a sourcemap option can hold
SourcemapValues == { "undefined", "false", "true", "''", "inline", "external",
                     "both" }

\* !!v of such a value
SourcemapTruthy(v) == v \notin { "undefined", "false", "''" }

\* processConfig(config): the config.sourcemap it leaves
NormalizeSourcemap(v) ==
  IF SourcemapTruthy(v)
  THEN IF v # "inline" /\ v # "external" THEN "true" ELSE v
  ELSE "false"

\* build1: the sourcemap of esbuildOptions. A build() call passes
\* config.sourcemap through processConfig; the standalone program starts from
\* the config main() makes, which has no sourcemap, and copies the properties
\* of the -esbuild object onto it. The flags -inline-sourcemap and -sourcemap
\* then take precedence.
build1Sourcemap(c) ==
  LET given == IF c.isMainCall THEN c.esbuildProps
               ELSE NormalizeSourcemap(c.sourcemap)
  IN IF c.inlineSourcemapFlag THEN "inline"
     ELSE IF c.sourcemapFlag THEN "true"
     ELSE given

\* config.sourcemap of a build() call or the sourcemap property of the
\* -esbuild object ("undefined": not given), and the command-line flags
SourcemapConfigs ==
  { c \in [ isMainCall : BOOLEAN, sourcemap : SourcemapValues,
            esbuildProps : SourcemapValues, inlineSourcemapFlag : BOOLEAN,
            sourcemapFlag : BOOLEAN ] :
      IF c.isMainCall THEN c.sourcemap = "undefined"
      ELSE c.esbuildProps = "undefined" }

\* (cwd, outfile, entryPoints) of configurations given to build()
IdentityConfigs ==
  [ cwd : { "/w/a", "a", "/w/b" },
    outfile : { "", "o", "o:m" },
    entryPoints : { << "m" >>, << "n" >>, << "m", "n" >> } ]

FunctionsInit ==
  /\ EngineInit
  /\ \/ call \in [ fn : { "onBuildFail" }, arg : Errs, returned : OnEndReturns ]
     \/ call \in [ fn : { "processConfig" }, arg : EntryConfigs ]
     \/ call \in [ fn : { "projectIDForConfig" },
                   arg : IdentityConfigs \X IdentityConfigs ]
     \/ call \in [ fn : { "refreshFiles" }, arg : Metas,
                   files : { << >>, << SrcMain >> } ]
     \/ call \in [ fn : { "build1Sourcemap" }, arg : SourcemapConfigs ]

engineVars == << script, pc, cfg, canceled, cancelCallbacks, fired, registered,
                 promise, resolverSet, ctxRebuild, buildCounter, tslintProcess,
                 tslintProcessReused, cycles, rebuilds, fswatcherMap,
                 fswatchersCreated, tslintProcessCache, tslintStarts,
                 exitCodeSet, cancelCalls, userCbs, changes, lastOnEnd,
                 cliopts >>

\* the function of this call has not been applied yet
Pending(fn) == call.fn = fn /\ "result" \notin DOMAIN call

\* the function of this call has been applied
Applied(fn) == call.fn = fn /\ "result" \in DOMAIN call

\* esbuild.build rejects with call.arg: onBuildFail, then the user's onEnd
OnBuildFailCall ==
  /\ Pending("onBuildFail")
  /\ call' = [ fn |-> call.fn, arg |-> call.arg, returned |-> call.returned,
               result |-> [ props |-> onBuildFail(call.arg),
                            outcome |-> OnEnd(CfgOnceA, "false",
                                              call.returned) ] ]
  /\ UNCHANGED engineVars

ProcessConfigCall ==
  /\ Pending("processConfig")
  /\ call' = [ fn |-> call.fn, arg |-> call.arg,
               result |-> processConfig(call.arg) ]
  /\ UNCHANGED engineVars

\* projectIDForConfig of two configurations
ProjectIDForConfigCall ==
  /\ Pending("projectIDForConfig")
  /\ call' = [ fn |-> call.fn, arg |-> call.arg,
               result |-> << projectIDForConfig(call.arg[1]),
                             projectIDForConfig(call.arg[2]) >> ]
  /\ UNCHANGED engineVars

RefreshFilesCall ==
  /\ Pending("refreshFiles")
  /\ call' = [ fn |-> call.fn, arg |-> call.arg, files |-> call.files,
               result |-> refreshFiles(call.arg, call.files) ]
  /\ UNCHANGED engineVars

\* build1 up to the options it hands to esbuild.build
Build1SourcemapCall ==
  /\ Pending("build1Sourcemap")
  /\ call' = [ fn |-> call.fn, arg |-> call.arg,
               result |-> build1Sourcemap(call.arg) ]
  /\ UNCHANGED engineVars

FunctionsNext ==
  \/ OnBuildFailCall
  \/ ProcessConfigCall
  \/ ProjectIDForConfigCall
  \/ RefreshFilesCall
  \/ Build1SourcemapCall

FunctionsSpec == FunctionsInit /\ [][FunctionsNext]_vars

\* ------------------------------------------------------------------------
\* properties

CycleIds == 1..Len(cycles)

\* cycle i has been started and has not settled
Active(i) == cycles[i].phase # "settled"

\* the cycles of handle h that ran to their end
CompletedCycles(h) ==
  { i \in CycleIds : /\ cycles[i].h = h
                     /\ cycles[i].phase = "settled"
                     /\ cycles[i].result \in { "true", "false" } }

\* a sequence without repeated elements
NoRepeats(seq) ==
  \A i, j \in 1..Len(seq) : seq[i] = seq[j] => i = j

\* C1: a cancel() call on a handle that is already canceled invokes no cleanup
\* callback, leaves the canceled flag and the callback list as they are and
\* does not change how the build promise is settled; cancel() never clears
\* the flag.
C1_CancelIdempotent ==
  [][ cancelCalls' # cancelCalls =>
        /\ \A h \in Handles : canceled[h] => canceled'[h]
        /\ canceled' = canceled =>
             UNCHANGED << fired, cancelCallbacks, promise, fswatcherMap,
                          tslintProcessCache, pc, cycles, exitCodeSet >> ]_vars

\* a single build was canceled twice after it had registered a callback
C1_Witness ==
  /\ script.builds = 1
  /\ cancelCalls = 2
  /\ canceled[1]
  /\ Len(fired[1]) >= 1

\* C2: the callbacks passed to addCancelCallback are invoked exactly once each
\* and in registration order if the handle is canceled, and not at all
\* before; a canceled handle stores no callback.
C2_CallbacksOnce ==
  \A h \in Handles :
    /\ NoRepeats(registered[h])
    /\ ~canceled[h] => fired[h] = << >> /\ cancelCallbacks[h] = registered[h]
    /\ canceled[h] => fired[h] = registered[h] /\ cancelCallbacks[h] = << >>

\* a canceled handle whose type-check, watcher or user callbacks (two at
\* least) have all been invoked
C2_Witness ==
  \E h \in Handles :
    /\ canceled[h]
    /\ Len(fired[h]) >= 2
    /\ \E i \in 1..Len(fired[h]) : fired[h][i].kind = "user"

\* build1 has not been entered for handle h
NotStarted(h) ==
  /\ \A i \in CycleIds : cycles[i].h # h
  /\ tslintProcess[h] = NoProc
  /\ ~tslintProcessReused[h]
  /\ ctxRebuild[h] = "stub"
  /\ registered[h] = << >>
  /\ \A id \in DOMAIN fswatcherMap : fswatcherMap[id].owner # h

\* C3: a handle canceled before its deferred start never enters build1: no
\* cycle (onStart, bundler) is started for it and it obtains no type-check
\* process and no watcher.
C3_CanceledBeforeStartNeverStarts ==
  [][ \A h \in Handles :
        (canceled[h] /\ pc[h] \in { "created", "skipped" }) =>
          (pc'[h] \in { "created", "skipped" } /\ NotStarted(h)') ]_vars

\* the deferred start has run for a handle that was canceled before it
C3_Witness ==
  \E h \in Handles : pc[h] = "skipped" /\ canceled[h]

\* C4: once cancel() has been called and the deferred start has run, the
\* build promise has left the pending state. (The promise of a build that has
\* started is settled by cancel() itself, so this is all "eventually" can
\* mean here.)
C4_CanceledPromiseSettles ==
  \A h \in Handles :
    (canceled[h] /\ pc[h] \notin { "none", "created" }) =>
      promise[h] # "pending"

\* C5: a rebuild() call made before the initial build cycle has completed
\* starts no cycle and resolves true.
C5_RebuildBeforeInitialIsNoop ==
  \A j \in 1..Len(rebuilds) :
    ~rebuilds[j].initialDone =>
      rebuilds[j].kind = "stub" /\ rebuilds[j].result = "true"

\* the cycles that rebuild() calls on handle h started
RebuildCycles(h) ==
  { i \in CycleIds : cycles[i].h = h /\ cycles[i].origin = "rebuild" }

\* C6: a rebuild() call on a non-canceled handle whose initial cycle has
\* completed starts exactly one cycle of its own: onStart (if configured) is
\* called once, the bundler and onEnd at most once and exactly once when no
\* hook throws, and the promise rebuild() returned settles as that cycle does
\* (a cycle a hook aborts rejects it, compare C15).
C6_RebuildOneCycle ==
  \A j \in 1..Len(rebuilds) :
    (rebuilds[j].initialDone /\ ~rebuilds[j].wasCanceled) =>
      /\ rebuilds[j].kind = "cycle"
      /\ rebuilds[j].cycle \in CycleIds
      /\ Cardinality(RebuildCycles(rebuilds[j].h)) =
           Cardinality({ k \in 1..Len(rebuilds) :
                           /\ rebuilds[k].h = rebuilds[j].h
                           /\ rebuilds[k].kind = "cycle" })
      /\ \A k \in 1..Len(rebuilds) :
           rebuilds[k].cycle = rebuilds[j].cycle => k = j
      /\ LET c == cycles[rebuilds[j].cycle] IN
           /\ c.h = rebuilds[j].h
           /\ c.origin = "rebuild"
           /\ c.onStartCalls =
                IF cfg[c.h].onStart = "async" THEN 1 ELSE 0
           /\ c.esbuildCalls <= 1
           /\ c.onEndCalls = IF c.phase = "settled" THEN c.esbuildCalls ELSE 0
           /\ c.phase = "esbuild" => c.esbuildCalls = 1
           /\ c.result \in { "true", "false" } =>
                c.esbuildCalls = 1 /\ c.onEndCalls = 1
           /\ rebuilds[j].result = c.result

\* a rebuild() made after the initial cycle ran a failing cycle to its end
C6_Witness ==
  \E j \in 1..Len(rebuilds) :
    /\ rebuilds[j].initialDone
    /\ ~rebuilds[j].wasCanceled
    /\ rebuilds[j].kind = "cycle"
    /\ rebuilds[j].result = "false"

\* C7: buildCounter equals the number of build cycles completed for the
\* handle.
C7_BuildCounterCounts ==
  \A h \in Handles : buildCounter[h] = Cardinality(CompletedCycles(h))

\* (cwd, outfile, entryPoints) of two configurations are equal
SameIdentity(c, d) ==
  /\ EffectiveCwd(c) = EffectiveCwd(d)
  /\ c.outfile = d.outfile
  /\ c.entryPoints = d.entryPoints

\* build1 of handle h has called watchFiles
Watches(h) == pc[h] \in { "refresh", "watching" }

CalledStartTSLint(h) ==
  /\ pc[h] \notin { "none", "created", "skipped" }
  /\ cfg[h].tslint # "off"

\* the handles whose startTSLint call started the process of key k
Starters(k) ==
  { h \in Handles : /\ CalledStartTSLint(h)
                    /\ tslintProcess[h] = k
                    /\ ~tslintProcessReused[h] }

\* what C9 says of a startTSLint call made with the options of handle h
StartTSLintAsClaimed(h) ==
  /\ tslintProcess[h] = CacheKey(cfg[h])
  /\ CacheKey(cfg[h]) \in DOMAIN tslintProcessCache
  /\ tslintStarts[CacheKey(cfg[h])] = 1
  /\ Cardinality(Starters(CacheKey(cfg[h]))) = 1

\* C9 as stated: every startTSLint call either starts the one process of its
\* cache key or returns the stored one.
C9_EveryCallStartsOrReuses ==
  \A h \in Handles : CalledStartTSLint(h) => StartTSLintAsClaimed(h)

\* C9 as amended: at most one process per cache key; a startTSLint call whose
\* options are not an object with mode "off" starts the one process of its
\* key (reused = false) or returns the stored one (reused = true); options
\* {mode:"off"} start nothing and yield no handle.
C9_OneProcessPerKey ==
  /\ \A k \in CacheKeys :
       /\ tslintStarts[k] <= 1
       /\ k \in DOMAIN tslintProcessCache <=> tslintStarts[k] = 1
  /\ \A h \in Handles :
       CalledStartTSLint(h) =>
         IF cfg[h].tslint = "objoff"
         THEN tslintProcess[h] = NoProc /\ ~tslintProcessReused[h]
         ELSE StartTSLintAsClaimed(h)

\* two builds share the type-check process the first of them started
C9_Witness ==
  \E g, h \in Handles :
    /\ g # h
    /\ CalledStartTSLint(g) /\ CalledStartTSLint(h)
    /\ tslintProcess[g] # NoProc
    /\ tslintProcess[g] = tslintProcess[h]
    /\ ~tslintProcessReused[g] /\ tslintProcessReused[h]

\* C10: two build cycles of one project identity are never in progress at the
\* same time.
C10_CyclesSequential ==
  \A i, j \in CycleIds :
    (i # j /\ Active(i) /\ Active(j)) =>
      projectIDForConfig(cfg[cycles[i].h]) # projectIDForConfig(cfg[cycles[j].h])

\* the build of handle h acts in this step: cancel() takes effect on it, or
\* build1 returns after its initial cycle
Acts(h) ==
  \/ canceled'[h] # canceled[h]
  \/ pc[h] = "initial" /\ pc'[h] = "done"

\* C11: builds of different project identities are independent: a step in
\* which a build is canceled or its initial cycle ends cancels a type-check
\* process or closes a watcher only if every build using that process or
\* watcher has the same (cwd, outfile, entryPoints).
C11_IdentitiesIndependent ==
  [][ \A h \in Handles :
        Acts(h) =>
          /\ \A k \in DOMAIN tslintProcessCache :
               ( /\ tslintProcessCache[k].state = "running"
                 /\ tslintProcessCache'[k].state = "canceled" ) =>
                 \A g \in Handles :
                   tslintProcess[g] = k => SameIdentity(cfg[g], cfg[h])
          /\ \A id \in DOMAIN fswatcherMap :
               (~fswatcherMap[id].closed /\ fswatcherMap'[id].closed) =>
                 \A g \in Handles :
                   (Watches(g) /\ projectIDForConfig(cfg[g]) = id) =>
                     SameIdentity(cfg[g], cfg[h]) ]_vars

\* this step is a call of build1's onEnd
OnEndCalled == lastOnEnd' # lastOnEnd

\* cycle i is the initial cycle of a non-watch build
InitialOfOneShot(i) ==
  cycles[i].origin = "initial" /\ ~cfg[cycles[i].h].watch

\* C12: when the bundler invocation of a cycle failed, the cycle outcome is
\* true if the user's onEnd hook returns a truthy value and false if it
\* returns a falsy value or nothing; a non-watch build without a type-check
\* process whose hook returned truthy then resolves to true (unless cancel()
\* settled it before) and the step sets no error exit code.
C12_OnEndOverridesFailure ==
  [][ (OnEndCalled /\ ~lastOnEnd'.success /\ lastOnEnd'.returned # "throw") =>
        LET i == lastOnEnd'.cycle IN
        /\ cycles'[i].result =
             IF lastOnEnd'.returned = "true" THEN "true" ELSE "false"
        /\ ( /\ lastOnEnd'.returned = "true"
             /\ InitialOfOneShot(i)
             /\ tslintProcess[cycles[i].h] = NoProc ) =>
             /\ pc'[cycles[i].h] = "done"
             /\ promise[cycles[i].h] = "pending" =>
                  promise'[cycles[i].h] = "true"
             /\ exitCodeSet' = exitCodeSet ]_vars

\* the initial cycle of handle h
InitialCycle(h) ==
  CHOOSE i \in CycleIds : cycles[i].h = h /\ cycles[i].origin = "initial"

\* a non-watch build that obtained a type-check process
OneShotWithTslint(h) ==
  /\ pc[h] \in { "initial", "tslint", "done" }
  /\ ~cfg[h].watch
  /\ tslintProcess[h] # NoProc

\* p of handle h resolves to v in this step unless cancel() settled it before
ResolvesTo(h, v) ==
  promise'[h] = IF promise[h] = "pending" THEN v ELSE promise[h]

\* C13: in a non-watch build with a type-check process the promise resolves
\* to true only when the initial cycle's outcome is true and the type-check
\* handle resolved true. When the outcome is false the handle is canceled and
\* not awaited and the promise resolves to false; when the outcome is true
\* the handle is awaited, and the promise resolves to false if the handle
\* resolved false or rejected.
C13_TslintGatesSuccess ==
  [][ \A h \in Handles :
        OneShotWithTslint(h) =>
          LET k == tslintProcess[h]
              res == cycles'[InitialCycle(h)].result
          IN
          /\ (pc[h] = "initial" /\ pc'[h] # "initial" /\ res = "true") =>
               /\ pc'[h] = "tslint"
               /\ promise'[h] = promise[h]
               /\ tslintProcessCache' = tslintProcessCache
          /\ (pc[h] = "initial" /\ pc'[h] # "initial" /\ res = "false") =>
               /\ pc'[h] = "done"
               /\ ResolvesTo(h, "false")
               /\ tslintProcessCache'[k].state # "running"
               /\ tslintProcessCache[k].state = "running" =>
                    tslintProcessCache'[k].state = "canceled"
          /\ (pc[h] = "tslint" /\ pc'[h] # "tslint") =>
               /\ pc'[h] = "done"
               /\ tslintProcessCache[k].state = "true" => ResolvesTo(h, "true")
               /\ tslintProcessCache[k].state \in { "false", "rejected" } =>
                    ResolvesTo(h, "false")
          /\ promise'[h] = "true" =>
               /\ pc'[h] = "done"
               /\ res = "true"
               /\ tslintProcessCache'[k].state = "true" ]_vars

\* a non-watch build whose bundler succeeded resolved to false because its
\* type-check handle resolved false or rejected
C13_Witness ==
  \E h \in Handles :
    /\ OneShotWithTslint(h)
    /\ pc[h] = "done"
    /\ ~canceled[h]
    /\ cycles[InitialCycle(h)].result = "true"
    /\ tslintProcessCache[tslintProcess[h]].state \in { "false", "rejected" }
    /\ promise[h] = "false"

\* the bundler invocation of the initial cycle of a non-watch build that is
\* not canceled fails in this step
BundlerFailsInOneShot(h) ==
  /\ OnEndCalled
  /\ ~lastOnEnd'.success
  /\ InitialOfOneShot(lastOnEnd'.cycle)
  /\ cycles[lastOnEnd'.cycle].h = h
  /\ ~canceled[h]

\* build1 of a non-watch build that is not canceled resumes in this step
\* from awaiting a type-check handle that resolved false or rejected
TslintFailsInOneShot(h) ==
  /\ pc[h] = "tslint" /\ pc'[h] # "tslint"
  /\ tslintProcessCache[tslintProcess[h]].state \in { "false", "rejected" }
  /\ ~canceled[h]

\* C14 as stated: a bundler rejection or a failed type-check in a non-watch
\* build that is not canceled makes the build promise resolve to false and
\* sets the error exit code; the promise does not reject.
C14_FailuresResolveFalse ==
  [][ \A h \in Handles :
        (BundlerFailsInOneShot(h) \/ TslintFailsInOneShot(h)) =>
          /\ pc'[h] = "done"
          /\ promise'[h] = "false"
          /\ exitCodeSet' ]_vars

\* C14 as amended: the same unless the user's onEnd hook, called with the
\* bundler failure, returns a truthy value (the build goes on as a successful
\* one: the promise resolves to true, or to what the type-check gives) or
\* throws (the promise rejects with the hook's error).
C14_FailuresResolveFalseUnlessHook ==
  [][ \A h \in Handles :
        /\ ( \/ TslintFailsInOneShot(h)
             \/ ( /\ BundlerFailsInOneShot(h)
                  /\ lastOnEnd'.returned \in { "undefined", "false" } ) ) =>
             /\ pc'[h] = "done"
             /\ promise'[h] = "false"
             /\ exitCodeSet'
        /\ (BundlerFailsInOneShot(h) /\ lastOnEnd'.returned = "true") =>
             /\ promise'[h] # "rejected_error"
             /\ pc'[h] = "done" => promise'[h] = "true"
             /\ pc'[h] # "done" => pc'[h] = "tslint" /\ promise'[h] = "pending"
        /\ (BundlerFailsInOneShot(h) /\ lastOnEnd'.returned = "throw") =>
             pc'[h] = "done" /\ promise'[h] = "rejected_error" ]_vars

\* a non-watch build resolved to false with the error exit code set after its
\* bundler invocation failed and the onEnd hook returned nothing
C14_Witness ==
  \E h \in Handles :
    /\ pc[h] = "done"
    /\ ~cfg[h].watch
    /\ cfg[h].onEnd = "hook"
    /\ ~canceled[h]
    /\ lastOnEnd.cycle \in CycleIds
    /\ cycles[lastOnEnd.cycle].h = h
    /\ ~lastOnEnd.success
    /\ lastOnEnd.returned = "undefined"
    /\ promise[h] = "false"
    /\ exitCodeSet

\* the onStart hook of cycle i throws or rejects in this step
OnStartFails(i) ==
  ~cycles[i].onStartRejected /\ cycles'[i].onStartRejected

\* C15: a cycle whose onStart hook threw or rejected never invokes the
\* bundler or onEnd and ends rejected; in the step in which the hook fails
\* the build promise rejects if the cycle is the initial one (unless cancel()
\* settled it before), and the promise rebuild() returned rejects if the
\* cycle is a rebuild.
C15_OnStartErrorAborts ==
  [][ \A i \in CycleIds :
        /\ cycles'[i].onStartRejected =>
             /\ cycles'[i].phase = "settled"
             /\ cycles'[i].result = "rejected"
             /\ cycles'[i].esbuildCalls = 0
             /\ cycles'[i].onEndCalls = 0
             /\ lastOnEnd'.cycle # i
        /\ OnStartFails(i) =>
             /\ cycles[i].origin = "initial" =>
                  /\ pc'[cycles[i].h] = "done"
                  /\ ResolvesTo(cycles[i].h, "rejected_error")
             /\ cycles[i].origin = "rebuild" =>
                  \E j \in 1..Len(rebuilds) :
                    /\ rebuilds[j].cycle = i
                    /\ rebuilds[j].result = "pending"
                    /\ rebuilds'[j].result = "rejected" ]_vars

\* the onStart hook failed in the initial cycle, rejecting the build promise,
\* and again in a rebuild, rejecting the promise of rebuild()
C15_Witness ==
  \E h \in Handles :
    /\ promise[h] = "rejected_error"
    /\ cycles[InitialCycle(h)].onStartRejected
    /\ \E j \in 1..Len(rebuilds) :
         /\ rebuilds[j].h = h
         /\ rebuilds[j].kind = "cycle"
         /\ cycles[rebuilds[j].cycle].onStartRejected
         /\ rebuilds[j].result = "rejected"

\* the rejection value err has no errors list, or an empty one
NoErrorsList(err) == err.errors.kind # "array" \/ Len(err.errors.l) = 0

\* the warnings of the rejection value err, or none
WarningsOf(err) == IF err.warnings.kind = "array" THEN err.warnings.l ELSE << >>

\* C16 as stated: for a rejection value without errors, onEnd is passed
\* exactly one error entry whose text is the exception's message (if it has
\* one), the warnings of the rejection (or none), and the cycle outcome is
\* false when onEnd returns nothing.
C16_SynthesizedErrorIsMessage ==
  (Applied("onBuildFail") /\ NoErrorsList(call.arg)) =>
    /\ Len(call.result.props.errors) = 1
    /\ call.arg.message # "" =>
         call.result.props.errors[1].text = call.arg.message
    /\ call.result.props.warnings = WarningsOf(call.arg)
    /\ call.returned = "undefined" => call.result.outcome = "false"

\* C16 as amended: the text of the one synthesized entry is the string
\* conversion of the rejection value: "<name>: <message>" for an Error with
\* a name and a message (the name alone, or the message alone, when the other
\* is empty), "[object Object]" for a plain object, the string itself for a
\* string.
C16_SynthesizedErrorIsString ==
  (Applied("onBuildFail") /\ NoErrorsList(call.arg)) =>
    /\ Len(call.result.props.errors) = 1
    /\ call.result.props.errors[1].location = "null"
    /\ call.arg.kind = "string" =>
         call.result.props.errors[1].text = call.arg.message
    /\ call.arg.kind = "object" =>
         call.result.props.errors[1].text = "[object Object]"
    /\ (call.arg.kind = "Error" /\ call.arg.message # "") =>
         call.result.props.errors[1].text =
           call.arg.name \o ": " \o call.arg.message
    /\ (call.arg.kind = "Error" /\ call.arg.message = "") =>
         call.result.props.errors[1].text = call.arg.name
    /\ call.result.props.warnings = WarningsOf(call.arg)
    /\ call.returned = "undefined" => call.result.outcome = "false"

\* onBuildFail was applied to an Error that has a message, warnings and no
\* errors list
C16_Witness ==
  /\ Applied("onBuildFail")
  /\ call.arg.kind = "Error"
  /\ call.arg.message = "boom"
  /\ call.arg.errors = Absent
  /\ call.arg.warnings # Absent
  /\ call.returned = "undefined"
  /\ call.result.props.errors[1].text = "Error: boom"
  /\ call.result.outcome = "false"

\* C17: the identities of two configurations are equal if and only if their
\* working directory, output file and entry-point list are all equal.
C17_IdentityInjective ==
  Applied("projectIDForConfig") =>
    ( call.result[1] = call.result[2]
        <=> SameIdentity(call.arg[1], call.arg[2]) )

\* the elements a value of entry or entryPoints stands for
Elements(v) ==
  IF v.kind = "array" THEN v.l
  ELSE IF v.kind = "string" /\ v.s # "" THEN << v.s >>
  ELSE << >>

\* the entry points given with config: entryPoints, then entry
GivenEntryPoints(config) == Elements(config.entryPoints) \o Elements(config.entry)

\* C18: processConfig leaves config.entryPoints as a non-empty list: the
\* given entries in order, each its own element, or the inferred ones when
\* none is given; or else it fails with the configuration error.
C18_EntryPointsNormalized ==
  Applied("processConfig") =>
    \/ call.result.ended = "Error"
    \/ /\ call.result.ended = "ok"
       /\ call.result.entryPoints.kind = "array"
       /\ Len(call.result.entryPoints.l) > 0
       /\ GivenEntryPoints(call.arg) # << >> =>
            call.result.entryPoints.l = GivenEntryPoints(call.arg)

\* the file name fn is under a node_modules directory
UnderNodeModules(fn) ==
  \E i \in 1..(Len(fn) - 1) : fn[i] = "node_modules"

\* the elements of a list
Range(seq) == { seq[i] : i \in 1..Len(seq) }

\* the watch set C19 describes for the metadata meta
WatchSetAsClaimed(meta) ==
  { fn \in Range(meta.inputs) :
      /\ fn \notin meta.outputs
      /\ Len(meta.inputs) > NodeModulesThreshold => ~UnderNodeModules(fn) }

\* C19: a refresh with readable metadata completes without error and
\* installs the inputs minus the outputs, minus the paths under node_modules
\* when there are more than 100 inputs.
C19_WatchSetDerivation ==
  (Applied("refreshFiles") /\ call.arg.readable) =>
    /\ call.result.ended = "set"
    /\ Range(call.result.files) = WatchSetAsClaimed(call.arg)

\* the part of C19 that holds: with at most 100 inputs the refresh installs
\* the inputs minus the outputs, node_modules paths included
WatchSetUpToThreshold ==
  ( /\ Applied("refreshFiles")
    /\ call.arg.readable
    /\ Len(call.arg.inputs) <= NodeModulesThreshold ) =>
    /\ call.result.ended = "set"
    /\ Range(call.result.files) = Range(call.arg.inputs) \ call.arg.outputs

\* equal (cwd, outfile, entryPoints) give equal identities
SameIdentitySameID ==
  ( /\ Applied("projectIDForConfig")
    /\ SameIdentity(call.arg[1], call.arg[2]) ) =>
    call.result[1] = call.result[2]

\* `await refreshFiles()` of watchFiles settles for handle h in this step
InitialRefreshOf(h) == pc[h] = "refresh" /\ pc'[h] # "refresh"

\* the refreshFiles() chained to a cycle of watcher id settles in this step
ChainedRefreshOf(id) ==
  /\ id \in DOMAIN fswatcherMap
  /\ fswatcherMap[id].state = "refresh"
  /\ fswatcherMap'[id].state # "refresh"

\* C20: a refresh that cannot read or parse the metafile logs the error and
\* returns: the watcher's file list stays exactly as it was, no build promise
\* changes, no exit code is set, the watcher is not closed and is idle again
\* after a chained refresh, and watchFiles goes on to wait on the watcher.
C20_UnreadableMetafileSkipsRefresh ==
  [][ /\ \A h \in Handles :
           ( /\ InitialRefreshOf(h)
             /\ fswatcherMap'[projectIDForConfig(cfg[h])].lastRefresh = "logged" ) =>
             /\ pc'[h] = "watching"
             /\ fswatcherMap'[projectIDForConfig(cfg[h])].files =
                  fswatcherMap[projectIDForConfig(cfg[h])].files
             /\ fswatcherMap'[projectIDForConfig(cfg[h])].closed =
                  fswatcherMap[projectIDForConfig(cfg[h])].closed
             /\ fswatcherMap'[projectIDForConfig(cfg[h])].state =
                  fswatcherMap[projectIDForConfig(cfg[h])].state
             /\ UNCHANGED << promise, exitCodeSet >>
      /\ \A id \in ProjectIDs :
           (ChainedRefreshOf(id) /\ fswatcherMap'[id].lastRefresh = "logged") =>
             /\ fswatcherMap'[id].files = fswatcherMap[id].files
             /\ fswatcherMap'[id].closed = fswatcherMap[id].closed
             /\ fswatcherMap'[id].state = "idle"
             /\ UNCHANGED << pc, promise, exitCodeSet >> ]_vars

\* a watcher that had a file list kept it through a refresh that could not
\* read the metafile, and is idle and open
C20_Witness ==
  \E id \in DOMAIN fswatcherMap :
    /\ fswatcherMap[id].lastRefresh = "logged"
    /\ fswatcherMap[id].files # << >>
    /\ fswatcherMap[id].state = "idle"
    /\ ~fswatcherMap[id].closed
    /\ changes > 0

\* cycle i was begun by a rebuild() call made on a canceled handle
BeganCanceled(i) ==
  \E j \in 1..Len(rebuilds) :
    /\ rebuilds[j].kind = "cycle"
    /\ rebuilds[j].cycle = i
    /\ rebuilds[j].wasCanceled

\* the initial cycle and the cycles a watcher triggers never begin on a
\* canceled handle: the deferred start returns and the watcher is closed
OnlyRebuildBeginsCanceled ==
  [][ \A i \in 1..Len(cycles') :
        (i > Len(cycles) /\ canceled[cycles'[i].h]) =>
          cycles'[i].origin = "rebuild" ]_vars

\* C21: a build cycle that begins after its handle has been canceled is a
\* no-op from its first step: it does not invoke the onStart hook, does not
\* invoke the bundler and does not invoke onEnd.
C21_CanceledCycleIsNoop ==
  \A i \in CycleIds :
    BeganCanceled(i) =>
      /\ cycles[i].onStartCalls = 0
      /\ cycles[i].esbuildCalls = 0
      /\ cycles[i].onEndCalls = 0

\* C22: every handle that entered watch mode has the cancellation of the
\* watcher it uses registered with it, whether it created the watcher or
\* found it in the registry: the first cancel() on such a handle cancels the
\* watcher's promise, so the handle's watchFiles call returns.
C22_CancelClosesWatcherInUse ==
  [][ \A h \in Handles :
        (cancelCalls' # cancelCalls /\ ~canceled[h] /\ canceled'[h] /\ Watches(h)) =>
          fswatcherMap'[projectIDForConfig(cfg[h])].closed ]_vars

\* cycle i runs to its end in this step, with an outcome
CycleCompletes(i) ==
  /\ cycles[i].phase # "settled"
  /\ cycles'[i].phase = "settled"
  /\ cycles'[i].result \in { "true", "false" }

\* a refreshFiles() call for the watcher of handle h is under way
RefreshUnderWay(h) ==
  \/ pc[h] = "refresh"
  \/ /\ projectIDForConfig(cfg[h]) \in DOMAIN fswatcherMap
     /\ fswatcherMap[projectIDForConfig(cfg[h])].state = "refresh"

\* C23: when a build cycle of a project in watch mode completes (the initial
\* build, a rebuild the watcher triggered or a rebuild() call made while the
\* build is in watchFiles), refreshFiles is started: the metadata is re-read
\* and the file set replaced before the watcher reports the next change.
C23_RefreshAfterEveryCycle ==
  [][ \A i \in CycleIds :
        ( /\ CycleCompletes(i)
          /\ cfg[cycles[i].h].watch
          /\ cycles[i].origin = "rebuild" => Watches(cycles[i].h) ) =>
          RefreshUnderWay(cycles[i].h)' ]_vars

\* the initial cycle and the cycles a watcher triggers are followed by
\* refreshFiles when they complete
RefreshAfterInitialAndWatchCycles ==
  [][ \A i \in CycleIds :
        ( /\ CycleCompletes(i)
          /\ cfg[cycles[i].h].watch
          /\ cycles[i].origin # "rebuild" ) =>
          RefreshUnderWay(cycles[i].h)' ]_vars

\* the bundler rejected in cycle i and the cycle ends in this step with
\* outcome false
CycleFails(i) ==
  /\ cycles[i].phase # "settled"
  /\ cycles'[i].phase = "settled"
  /\ cycles'[i].result = "false"
  /\ lastOnEnd'.cycle = i
  /\ ~lastOnEnd'.success

\* C24: the watch set is mutated only after a successful cycle: when the
\* initial cycle or a watcher-triggered cycle of a project in watch mode ends
\* in failure (the bundler rejected), refreshFiles is not called, so the
\* metadata is not re-read and the watcher's file set stays as it is.
C24_NoRefreshAfterFailure ==
  [][ \A i \in CycleIds :
        ( /\ CycleFails(i)
          /\ cfg[cycles[i].h].watch
          /\ cycles[i].origin # "rebuild" ) =>
          ~RefreshUnderWay(cycles[i].h)' ]_vars

\* build1 of handle h is running with the type-check process of key k, and
\* the handle is not canceled
UsesProcess(h, k) ==
  /\ tslintProcess[h] = k
  /\ ~canceled[h]
  /\ pc[h] \in { "initial", "tslint", "refresh", "watching" }

\* C25: a type-check process shared by several builds is canceled only on
\* behalf of its last remaining user: a step that cancels the running process
\* leaves no build that uses it and is not canceled, so no such build
\* observes it canceled because another build was canceled or had a failing
\* bundler cycle.
C25_SharedProcessOutlivesOtherUsers ==
  [][ \A k \in DOMAIN tslintProcessCache :
        ( /\ tslintProcessCache[k].state = "running"
          /\ tslintProcessCache'[k].state = "canceled" ) =>
          ~\E g \in Handles : UsesProcess(g, k) /\ UsesProcess(g, k)' ]_vars

\* the four sourcemap states: false, true, "inline", "external"
SourcemapStates == { "false", "true", "inline", "external" }

\* C26: at every bundler invocation, for a build() call and for the
\* standalone program, the sourcemap option passed to the bundler is one of
\* false, true, "inline" and "external".
C26_SourcemapNormalized ==
  Applied("build1Sourcemap") => call.result \in SourcemapStates

\* for a build() call the option is one of the four states
ApiSourcemapNormalized ==
  (Applied("build1Sourcemap") /\ ~call.arg.isMainCall) =>
    call.result \in SourcemapStates

\* the promise of the onStart hook of cycle i resolves in this step, the
\* handle having been canceled while _esbuild awaited it
OnStartResolvesCanceled(i) ==
  /\ cycles[i].phase = "onStart"
  /\ cycles'[i].phase # "onStart"
  /\ ~cycles'[i].onStartRejected
  /\ canceled[cycles[i].h]

\* C27: for a build started through build(), a cancel() issued while a cycle
\* awaits its onStart hook is seen by that cycle: when the hook resolves the
\* cycle returns without invoking the bundler, and after the initial cycle
\* build1 returns without entering watchFiles.
C27_CancelSeenAfterOnStart ==
  [][ \A i \in CycleIds :
        (OnStartResolvesCanceled(i) /\ ~cfg[cycles[i].h].isMainCall) =>
          /\ cycles'[i].phase = "settled"
          /\ cycles'[i].esbuildCalls = 0
          /\ cycles[i].origin = "initial" => pc'[cycles[i].h] = "done" ]_vars

\* esbuild.build has been called in cycle i and has not settled
BundlerInFlight(i) == cycles[i].phase = "esbuild"

\* C28: at most one bundler invocation of a handle is in flight at a time,
\* whether the cycles are the initial build, rebuilds the watcher triggered
\* or rebuild() calls.
C28_OneBundlerInvocationPerHandle ==
  \A i, j \in CycleIds :
    (BundlerInFlight(i) /\ BundlerInFlight(j) /\ cycles[i].h = cycles[j].h) =>
      i = j

\* build1 of handle h starts in this step
Build1Starts(h) == pc[h] = "created" /\ pc'[h] = "initial"

\* C29: the effective watch, debug and quiet settings of a build() call are
\* those of its own configuration joined with the command-line options as
\* parsed at startup, whatever builds ran before it.
C29_SettingsIndependentOfEarlierBuilds ==
  [][ \A h \in Handles :
        (Build1Starts(h) /\ ~cfg[h].isMainCall) =>
          /\ cfg'[h].watch = (ScriptOpts.watch \/ cfg[h].watch)
          /\ cfg'[h].debug = (ScriptOpts.debug \/ cfg[h].debug)
          /\ cfg'[h].quiet = (ScriptOpts.quiet \/ cfg[h].quiet) ]_vars

\* build1 of handle h enters watchFiles in this step
EntersWatchFiles(h) == pc[h] = "initial" /\ pc'[h] = "refresh"

\* C30: the registries never hand out a canceled resource: the type-check
\* process that startTSLint returns to a build is not a canceled one, and the
\* watcher that watchFiles obtains for a build that is not canceled is not
\* one whose promise has been canceled.
C30_RegistriesHandOutLiveResources ==
  [][ \A h \in Handles :
        /\ (Build1Starts(h) /\ tslintProcess'[h] # NoProc) =>
             tslintProcessCache'[tslintProcess'[h]].state # "canceled"
        /\ (EntersWatchFiles(h) /\ ~canceled[h]) =>
             ~fswatcherMap'[projectIDForConfig(cfg[h])].closed ]_vars

====
